---- MODULE Spec2Model ----
(***************************************************************************)
(* Model of the doc-flow backend's access-control and identifier-          *)
(* resolution layer: DocumentService, the batch-job routes, the document   *)
(* routes and the auth routes.                                             *)
(*                                                                         *)
(* A string is a sequence of one-character tokens; a fixed path component  *)
(* of the program ("output", "status.json", ...) is a single token.  A     *)
(* path is the sequence of its segments after path.join's normalisation.   *)
(***************************************************************************)
EXTENDS Naturals, Integers, Sequences, FiniteSets, TLC

VARIABLES sessions, issued, now, docs, fs, req, res, trace, prev, dashboard, client

vars == <<sessions, issued, now, docs, fs, req, res, trace, prev, dashboard, client>>

\* The state of the frontend: the dashboard component and the API client
frontend == <<dashboard, client>>

(***************************************************************************)
(* Bounds                                                                  *)
(***************************************************************************)
MaxLen == 4

Alphabet == {"a", ".", "/", "\\", ":", "_"}

StrUpTo(n) == UNION {[1..k -> Alphabet] : k \in 0..n}

Strings == StrUpTo(MaxLen)

NonEmptyStrings == Strings \ {<<>>}

(***************************************************************************)
(* JavaScript string primitives                                            *)
(***************************************************************************)
\* String.prototype.includes
Includes(s, sub) ==
  \E i \in 1..(Len(s) + 1) :
     /\ i + Len(sub) - 1 <= Len(s)
     /\ SubSeq(s, i, i + Len(sub) - 1) = sub

\* String.prototype.indexOf for a one-character needle: 0-based, -1 if absent
IndexOf(s, c) ==
  IF \E i \in 1..Len(s) : s[i] = c
    THEN (CHOOSE i \in 1..Len(s) : s[i] = c /\ \A j \in 1..(i - 1) : s[j] # c) - 1
    ELSE -1

\* String.prototype.substring(0, end)
Substring0(s, end) == SubSeq(s, 1, end)

\* String.prototype.replace(needle, by) with a one-character string or a regex
\* without the g flag: only the first occurrence is replaced
ReplaceFirst(s, c, by) ==
  LET i == IndexOf(s, c)
  IN  IF i = -1 THEN s
      ELSE SubSeq(s, 1, i) \o by \o SubSeq(s, i + 2, Len(s))

\* const [first] = s.split(c): the part before the first c, s itself without c
SplitFirst(s, c) ==
  LET i == IndexOf(s, c)
  IN  IF i = -1 THEN s ELSE SubSeq(s, 1, i)

(***************************************************************************)
(* path.join (POSIX): the parts are joined by "/", the result is split     *)
(* into segments, empty and "." segments are dropped and ".." removes the  *)
(* segment before it (at the root of an absolute path ".." is dropped).    *)
(***************************************************************************)
RECURSIVE JoinStr(_)
JoinStr(parts) ==
  IF parts = <<>> THEN <<>>
  ELSE IF Len(parts) = 1 THEN parts[1]
  ELSE parts[1] \o <<"/">> \o JoinStr(Tail(parts))

RECURSIVE SplitSegments(_, _, _)
SplitSegments(s, cur, acc) ==
  IF s = <<>> THEN Append(acc, cur)
  ELSE IF Head(s) = "/" THEN SplitSegments(Tail(s), <<>>, Append(acc, cur))
  ELSE SplitSegments(Tail(s), Append(cur, Head(s)), acc)

RECURSIVE NormalizeSegments(_, _)
NormalizeSegments(segs, acc) ==
  IF segs = <<>> THEN acc
  ELSE LET h == Head(segs)
       IN  IF h = <<>> \/ h = <<".">> THEN NormalizeSegments(Tail(segs), acc)
           ELSE IF h = <<".", ".">>
             THEN NormalizeSegments(Tail(segs),
                    IF acc = <<>> THEN acc ELSE SubSeq(acc, 1, Len(acc) - 1))
           ELSE NormalizeSegments(Tail(segs), Append(acc, h))

PathJoin(parts) == NormalizeSegments(SplitSegments(JoinStr(parts), <<>>, <<>>), <<>>)

\* config/paths.ts
OUTPUTS_DIR == <<"/", "home", "/", "alimohammad", "/", "pdf-results">>

BATCH_OUTPUTS_DIR ==
  <<"/", "home", "/", "alimohammad", "/", "AIComps", "/", "comps", "/",
    "pdf-parser", "/", "batch_processing">>

OUTPUT_TREE_FILENAME ==
  <<"/", "outputs", "/", "processing", "/", "output_tree.json">>

\* p lies in the tree rooted at root (root itself included)
IsUnder(p, root) ==
  LET r == PathJoin(<<root>>)
  IN  Len(p) >= Len(r) /\ SubSeq(p, 1, Len(r)) = r

(***************************************************************************)
(* Values                                                                  *)
(***************************************************************************)
Groups == {"G1", "G2"}

NoPath == <<>>

\* An Error's message: the template text, and the identifier and the path
\* the template interpolates
Msg(text, id, path) == [text |-> text, id |-> id, path |-> path]

NoMsg == Msg("", <<>>, NoPath)

AccessDeniedText == "Access denied: You do not have permission to view this document"

DocNotFoundText == "Document with id \"${documentId}\" not found in path ${outputTreePath} or missing output_tree.json"

ImagesDocNotFoundText == "Document with id \"${documentId}\" not found"

BatchNotFoundText == "Batch document \"${documentId}\" not found at ${path}"

ReadDirFailedText == "Failed to read documents directory"

\* error.message.includes('not found')
MessageIncludesNotFound(m) ==
  m.text \in {DocNotFoundText, ImagesDocNotFoundText, BatchNotFoundText}

\* What an operation returns: a file's content, a list of names, a set of
\* document metadata entries
Data(kind, path, names, items) ==
  [kind |-> kind, path |-> path, names |-> names, items |-> items]

NoData == Data("", NoPath, <<>>, {})

\* One step of a handler, in the order the code takes them
Ev(ev, what, path) == [ev |-> ev, what |-> what, path |-> path]

Return(data, events) ==
  [threw |-> FALSE, message |-> NoMsg, code |-> "", data |-> data, events |-> events]

Throw(message, code, events) ==
  [threw |-> TRUE, message |-> message, code |-> code, data |-> NoData,
   events |-> events]

(***************************************************************************)
(* The filesystem: fs.files and fs.dirs are the leaf paths that exist;     *)
(* every ancestor of an existing path is an existing directory.            *)
(***************************************************************************)
IsPrefix(p, q) == Len(p) <= Len(q) /\ SubSeq(q, 1, Len(p)) = p

FsLeaves == fs.files \cup fs.dirs

FsIsFile(p) == p \in fs.files

FsIsDir(p) ==
  \/ \E q \in fs.dirs : IsPrefix(p, q)
  \/ \E q \in fs.files : IsPrefix(p, q) /\ p # q

\* "" when the path exists, else the errno an fs call fails with
FsErrno(p) ==
  IF FsIsFile(p) \/ FsIsDir(p) THEN ""
  ELSE IF \E q \in fs.files : IsPrefix(q, p) THEN "ENOTDIR"
  ELSE "ENOENT"

\* fs.access
FsAccess(p) == FsErrno(p) = ""

\* fs.readdir: the names of the entries of directory p
FsReaddir(p) == {q[Len(p) + 1] : q \in {l \in FsLeaves : IsPrefix(p, l) /\ l # p}}

\* fs.readdir returns the names in the order the directory holds them, which
\* no caller chooses: every order of the entries is a possible result
ReaddirOrders(p) ==
  {files \in [1..Cardinality(FsReaddir(p)) -> FsReaddir(p)] :
     \A i, j \in DOMAIN files : i # j => files[i] # files[j]}

(***************************************************************************)
(* The document store (models/Document): the records DocumentService reads *)
(***************************************************************************)
NoRecord == [exists |-> FALSE, permissions |-> {}, isActive |-> FALSE]

Record(permissions, isActive) ==
  [exists |-> TRUE, permissions |-> permissions, isActive |-> isActive]

\* DocumentModel.findByDocumentId
FindDocument(documentId) ==
  IF documentId \in DOMAIN docs THEN docs[documentId] ELSE NoRecord

\* DocumentModel.hasAccess
HasAccess(documentId, userGroupIds) ==
  LET r == FindDocument(documentId)
  IN  r.exists /\ r.isActive /\ r.permissions \cap userGroupIds # {}

\* DocumentModel.findAll, as document ids
FindAll == {d \in DOMAIN docs : docs[d].exists /\ docs[d].isActive}

\* DocumentModel.findByGroupIds, as document ids
FindByGroupIds(userGroupIds) == {d \in DOMAIN docs : HasAccess(d, userGroupIds)}

(***************************************************************************)
(* File names: extension, case folding and Array.prototype.sort's order    *)
(***************************************************************************)
\* The tokens of file names in ascending UTF-16 order of the text they stand for
TokenOrder ==
  <<".", "/", ":", "PNG", "\\", "_", "a", "gif", "jpeg", "jpg", "original.pdf",
    "output_tree.json", "png", "status.json", "txt", "webp">>

TokenRank(t) == CHOOSE i \in 1..Len(TokenOrder) : TokenOrder[i] = t

\* a < b as JavaScript compares strings
RECURSIVE NameLess(_, _)
NameLess(a, b) ==
  IF b = <<>> THEN FALSE
  ELSE IF a = <<>> THEN TRUE
  ELSE IF Head(a) = Head(b) THEN NameLess(Tail(a), Tail(b))
  ELSE TokenRank(Head(a)) < TokenRank(Head(b))

\* Array.prototype.sort() of a set of distinct names
RECURSIVE SortNames(_)
SortNames(S) ==
  IF S = {} THEN <<>>
  ELSE LET m == CHOOSE x \in S : \A y \in S \ {x} : NameLess(x, y)
       IN  <<m>> \o SortNames(S \ {m})

\* String.prototype.toLowerCase
ToLowerCase(s) == [i \in 1..Len(s) |-> IF s[i] = "PNG" THEN "png" ELSE s[i]]

LastIndexOfDot(name) ==
  IF \E i \in 1..Len(name) : name[i] = "."
    THEN CHOOSE i \in 1..Len(name) :
           name[i] = "." /\ \A j \in (i + 1)..Len(name) : name[j] # "."
    ELSE 0

\* path.extname of a single path segment
ExtName(name) ==
  LET i == LastIndexOfDot(name)
  IN  IF i <= 1 \/ name = <<".", ".">> THEN <<>> ELSE SubSeq(name, i, Len(name))

\* ['.jpeg', '.jpg', '.png'].includes(ext)
ServiceImageExts == {<<".", "jpeg">>, <<".", "jpg">>, <<".", "png">>}

(***************************************************************************)
(* DocumentService (services/documentService.ts)                           *)
(***************************************************************************)
\* fs.readFile followed by JSON.parse of a path fs.access has accepted
ReadJson(p, events) ==
  IF FsIsFile(p)
    THEN Return(Data("json", p, <<>>, {}), Append(events, Ev("fs", "readFile", p)))
    ELSE Throw(Msg("EISDIR: illegal operation on a directory, read", <<>>, p),
               "EISDIR", Append(events, Ev("fs", "readFile", p)))

\* DocumentService.checkAccess
CheckAccess(documentId, userGroupIds) == HasAccess(documentId, userGroupIds)

CheckPermissionsAdminNotExempt(documentId, userGroupIds, isAdmin) ==
  IF CheckAccess(documentId, userGroupIds) THEN "Grant" ELSE "Deny"

CheckPermissionsInverted(documentId, userGroupIds, isAdmin) ==
  IF isAdmin THEN "Grant"
  ELSE IF CheckAccess(documentId, userGroupIds) THEN "Deny" ELSE "Grant"

CheckPermissionsExistenceOnly(documentId, userGroupIds, isAdmin) ==
  IF isAdmin \/ CheckAccess(documentId, userGroupIds) THEN "Grant"
  ELSE IF FindDocument(documentId).exists /\ FindDocument(documentId).permissions = {}
    THEN "Grant"
  ELSE "Deny"

\* The "Check permissions first" block of getDocumentById and getDocumentImages
CheckPermissions(documentId, userGroupIds, isAdmin) ==
  IF ~isAdmin
    THEN IF ~CheckAccess(documentId, userGroupIds) THEN "Deny" ELSE "Grant"
    ELSE "Grant"

\* DocumentService.isBatchDocument
IsBatchDocument(documentId) == Includes(documentId, <<":">>)

\* DocumentService.getBatchDocumentFolder
GetBatchDocumentFolder(documentId) == ReplaceFirst(documentId, ":", <<"_">>)

\* DocumentService.getBatchDocumentStructure
GetBatchDocumentStructure(documentId) ==
  LET batchJobId == SplitFirst(documentId, ":")
      batchFolder == GetBatchDocumentFolder(documentId)
      outputTreePath ==
        PathJoin(<<BATCH_OUTPUTS_DIR, batchJobId, batchFolder, <<"output">>,
                   <<"processing">>, <<"output_tree.json">> >>)
      events == <<Ev("path", "", outputTreePath), Ev("fs", "access", outputTreePath)>>
  IN  IF ~FsAccess(outputTreePath)
        THEN Throw(Msg(BatchNotFoundText, documentId, outputTreePath), "", events)
        ELSE ReadJson(outputTreePath, events)

GetDocumentByIdPathFirst(documentId, userGroupIds, isAdmin) ==
  IF IsBatchDocument(documentId)
    THEN LET r == GetBatchDocumentStructure(documentId)
         IN  [r EXCEPT !.events = <<Ev("classify", "batch", NoPath)>> \o @]
    ELSE LET outputTreePath == PathJoin(<<OUTPUTS_DIR, documentId, OUTPUT_TREE_FILENAME>>)
             decision == CheckPermissions(documentId, userGroupIds, isAdmin)
             e1 == <<Ev("classify", "simple", NoPath), Ev("path", "", outputTreePath),
                     Ev("fs", "access", outputTreePath)>>
             e2 == Append(e1, Ev("authz", decision, NoPath))
         IN  IF ~FsAccess(outputTreePath)
               THEN Throw(Msg(DocNotFoundText, documentId, outputTreePath), "", e1)
             ELSE IF decision = "Deny"
               THEN Throw(Msg(AccessDeniedText, <<>>, NoPath), "", e2)
             ELSE ReadJson(outputTreePath, e2)

GetDocumentByIdRevealsMissing(documentId, userGroupIds, isAdmin) ==
  IF IsBatchDocument(documentId)
    THEN LET r == GetBatchDocumentStructure(documentId)
         IN  [r EXCEPT !.events = <<Ev("classify", "batch", NoPath)>> \o @]
    ELSE LET decision == CheckPermissions(documentId, userGroupIds, isAdmin)
             e1 == <<Ev("classify", "simple", NoPath), Ev("authz", decision, NoPath)>>
             outputTreePath == PathJoin(<<OUTPUTS_DIR, documentId, OUTPUT_TREE_FILENAME>>)
         IN  IF decision = "Deny" /\ ~FindDocument(documentId).exists
               THEN Throw(Msg(DocNotFoundText, documentId, outputTreePath), "", e1)
             ELSE IF decision = "Deny"
               THEN Throw(Msg(AccessDeniedText, <<>>, NoPath), "", e1)
             ELSE LET e2 == e1 \o <<Ev("path", "", outputTreePath),
                                    Ev("fs", "access", outputTreePath)>>
                  IN  IF ~FsAccess(outputTreePath)
                        THEN Throw(Msg(DocNotFoundText, documentId, outputTreePath),
                                   "", e2)
                        ELSE ReadJson(outputTreePath, e2)

\* DocumentService.getDocumentById
GetDocumentById(documentId, userGroupIds, isAdmin) ==
  IF IsBatchDocument(documentId)
    THEN LET r == GetBatchDocumentStructure(documentId)
         IN  [r EXCEPT !.events = <<Ev("classify", "batch", NoPath)>> \o @]
    ELSE LET decision == CheckPermissions(documentId, userGroupIds, isAdmin)
             e1 == <<Ev("classify", "simple", NoPath), Ev("authz", decision, NoPath)>>
         IN  IF decision = "Deny"
               THEN Throw(Msg(AccessDeniedText, <<>>, NoPath), "", e1)
               ELSE LET outputTreePath ==
                          PathJoin(<<OUTPUTS_DIR, documentId, OUTPUT_TREE_FILENAME>>)
                        e2 == e1 \o <<Ev("path", "", outputTreePath),
                                      Ev("fs", "access", outputTreePath)>>
                    IN  IF ~FsAccess(outputTreePath)
                          THEN Throw(Msg(DocNotFoundText, documentId, outputTreePath),
                                     "", e2)
                          ELSE ReadJson(outputTreePath, e2)

\* The image files of directory dir, filtered and sorted as both image listings
\* of the service do
ListImages(dir, events) ==
  LET e == Append(events, Ev("fs", "readdir", dir))
  IN  IF ~FsIsDir(dir)
        THEN Throw(Msg("ENOTDIR: not a directory, scandir", <<>>, dir), "ENOTDIR", e)
        ELSE LET images ==
                   {n \in FsReaddir(dir) :
                      /\ FsIsFile(Append(dir, n))
                      /\ ToLowerCase(ExtName(n)) \in ServiceImageExts}
             IN  Return(Data("images", dir, SortNames(images), {}), e)

\* DocumentService.getBatchDocumentImages
GetBatchDocumentImages(documentId) ==
  LET batchJobId == SplitFirst(documentId, ":")
      batchFolder == GetBatchDocumentFolder(documentId)
      outputPath ==
        PathJoin(<<BATCH_OUTPUTS_DIR, batchJobId, batchFolder, <<"output">>,
                   <<"processing">> >>)
      events == <<Ev("path", "", outputPath), Ev("fs", "access", outputPath)>>
  IN  IF ~FsAccess(outputPath)
        THEN Throw(Msg(BatchNotFoundText, documentId, outputPath), "", events)
        ELSE ListImages(outputPath, events)

\* DocumentService.getDocumentImages
GetDocumentImages(documentId, userGroupIds, isAdmin) ==
  LET decision == CheckPermissions(documentId, userGroupIds, isAdmin)
      e1 == <<Ev("authz", decision, NoPath)>>
  IN  IF decision = "Deny"
        THEN Throw(Msg(AccessDeniedText, <<>>, NoPath), "", e1)
      ELSE IF IsBatchDocument(documentId)
        THEN LET r == GetBatchDocumentImages(documentId)
             IN  [r EXCEPT !.events = Append(e1, Ev("classify", "batch", NoPath)) \o @]
      ELSE LET docPath == PathJoin(<<OUTPUTS_DIR, documentId>>)
               e2 == e1 \o <<Ev("classify", "simple", NoPath), Ev("path", "", docPath),
                             Ev("fs", "access", docPath)>>
           IN  IF ~FsAccess(docPath)
                 THEN Throw(Msg(ImagesDocNotFoundText, documentId, NoPath), "", e2)
                 ELSE ListImages(docPath, e2)

GetAllDocumentsEveryFolder(userGroupIds, isAdmin) ==
  LET root == PathJoin(<<OUTPUTS_DIR>>)
      e1 == <<Ev("fs", "access", root)>>
      e2 == Append(e1, Ev("fs", "readdir", root))
  IN  IF ~FsAccess(root) THEN Return(Data("documents", root, <<>>, {}), e1)
      ELSE IF ~FsIsDir(root) THEN Throw(Msg(ReadDirFailedText, <<>>, NoPath), "", e2)
      ELSE LET listed == {n \in FsReaddir(root) : FsIsDir(Append(root, n))}
               names == SortNames(listed)
               treePath(n) == PathJoin(<<OUTPUTS_DIR, n, OUTPUT_TREE_FILENAME>>)
               items == {[id |-> n, hasOutputTree |-> FsAccess(treePath(n))] :
                           n \in listed}
               e3 == [i \in 1..Len(names) |-> Ev("fs", "access", treePath(names[i]))]
           IN  Return(Data("documents", root, <<>>, items), e2 \o e3)

\* DocumentService.getAllDocuments
GetAllDocuments(userGroupIds, isAdmin) ==
  LET accessibleDocIds == IF isAdmin THEN FindAll ELSE FindByGroupIds(userGroupIds)
      root == PathJoin(<<OUTPUTS_DIR>>)
      e1 == <<Ev("fs", "access", root)>>
      e2 == Append(e1, Ev("fs", "readdir", root))
  IN  IF ~FsAccess(root) THEN Return(Data("documents", root, <<>>, {}), e1)
      ELSE IF ~FsIsDir(root) THEN Throw(Msg(ReadDirFailedText, <<>>, NoPath), "", e2)
      ELSE LET listed == {n \in FsReaddir(root) :
                            FsIsDir(Append(root, n)) /\ n \in accessibleDocIds}
               names == SortNames(listed)
               treePath(n) == PathJoin(<<OUTPUTS_DIR, n, OUTPUT_TREE_FILENAME>>)
               items == {[id |-> n, hasOutputTree |-> FsAccess(treePath(n))] :
                           n \in listed}
               e3 == [i \in 1..Len(names) |-> Ev("fs", "access", treePath(names[i]))]
           IN  Return(Data("documents", root, <<>>, items), e2 \o e3)

(***************************************************************************)
(* Users and sessions (services/authService, middleware/auth)              *)
(***************************************************************************)
MaxTime == 48

TickHours == 12

\* README, Security Notes: session tokens expire after 24 hours
SessionHours == 24

Tokens == {"t1", "t2"}

\* The value of a request without an Authorization header
NoToken == ""

Users == {"alice", "root"}

\* The user store: group memberships and password of each user
UserGroupIds(u) == IF u = "alice" THEN {"G1"} ELSE {"admin"}

UserPassword(u) == IF u = "alice" THEN "pw-alice" ELSE "pw-root"

\* The 'admin' group has full access
UserIsAdmin(u) == "admin" \in UserGroupIds(u)

NoSession == [exists |-> FALSE, userId |-> "", createdAt |-> 0, expiresAt |-> 0]

Session(userId, createdAt) ==
  [exists |-> TRUE, userId |-> userId, createdAt |-> createdAt,
   expiresAt |-> createdAt + SessionHours]

NoUser == [userId |-> "", groupIds |-> {}, isAdmin |-> FALSE]

Principal(u) == [userId |-> u, groupIds |-> UserGroupIds(u), isAdmin |-> UserIsAdmin(u)]

\* AuthService.validateSession: the user of the session, NoUser (null) when the
\* token is unknown or the session has expired
ValidateSession(token) ==
  IF token \in Tokens /\ sessions[token].exists /\ ~(now > sessions[token].expiresAt)
    THEN Principal(sessions[token].userId)
    ELSE NoUser

\* middleware/auth authenticate: the user the request proceeds as, NoUser when
\* the middleware answers 401 and does not call next()
Authenticate(token) == IF token = NoToken THEN NoUser ELSE ValidateSession(token)

(***************************************************************************)
(* HTTP responses                                                          *)
(***************************************************************************)
Http(status, error, message, data) ==
  [status |-> status, error |-> error, message |-> message, data |-> data]

Handled(response, events) == [response |-> response, events |-> events]

Unauthorized == Http(401, "Authentication required", NoMsg, NoData)

\* The errno of an fs error as the text of its message
ErrnoMsg(code, p) == Msg(code, <<>>, p)

(***************************************************************************)
(* Batch routes (routes/batchRoutes.ts)                                    *)
(***************************************************************************)
\* The null a helper returns
Null == <<"null">>

\* extractBatchJobIdFromFileId
ExtractBatchJobIdFromFileId(fileId) ==
  LET colonIndex == IndexOf(fileId, ":")
  IN  IF colonIndex = -1 THEN Null ELSE Substring0(fileId, colonIndex)

FileIdToFolderNameEveryColon(fileId) ==
  [i \in 1..Len(fileId) |-> IF fileId[i] = ":" THEN "_" ELSE fileId[i]]

\* fileIdToFolderName
FileIdToFolderName(fileId) == ReplaceFirst(fileId, ":", <<"_">>)

\* !batchJobId
Falsy(s) == s = Null \/ s = <<>>

\* The "Security check: prevent directory traversal" of the file routes
FileIdIsTraversal(fileId) ==
  Includes(fileId, <<".", ".">>) \/ Includes(fileId, <<"/">>) \/ Includes(fileId, <<"\\">>)

\* readStatusFile: the events and the errno ("" on success)
ReadStatusFile(batchJobId) ==
  LET statusFilePath == PathJoin(<<BATCH_OUTPUTS_DIR, batchJobId, <<"status.json">> >>)
  IN  [path |-> statusFilePath,
       code |-> IF FsIsDir(statusFilePath) THEN "EISDIR" ELSE FsErrno(statusFilePath),
       events |-> <<Ev("path", "", statusFilePath), Ev("fs", "readFile", statusFilePath)>>]

\* router.get('/:batchJobId/status')
BatchStatusHandler(batchJobId) ==
  IF batchJobId = <<>>
    THEN Handled(Http(400, "Batch job ID is required", NoMsg, NoData), <<>>)
  ELSE IF Includes(batchJobId, <<".", ".">>)
    THEN Handled(Http(400, "Invalid batch job ID", NoMsg, NoData), <<>>)
  ELSE LET r == ReadStatusFile(batchJobId)
       IN  IF r.code = ""
             THEN Handled(Http(200, "", NoMsg, Data("status", r.path, <<>>, {})), r.events)
           ELSE IF r.code = "ENOENT"
             THEN Handled(Http(404, "Batch job not found", NoMsg, NoData), r.events)
           ELSE Handled(Http(500, "Failed to read batch job status",
                             ErrnoMsg(r.code, r.path), NoData), r.events)

\* The path of a batch file's folder entry: path.join(BATCH_OUTPUTS_DIR,
\* batchJobId, folderName, ...rest)
BatchFilePath(fileId, rest) ==
  PathJoin(<<BATCH_OUTPUTS_DIR, ExtractBatchJobIdFromFileId(fileId),
             FileIdToFolderName(fileId)>> \o rest)

BatchStructureHandlerAnyError500(fileId) ==
  IF fileId = <<>>
    THEN Handled(Http(400, "File ID is required", NoMsg, NoData), <<>>)
  ELSE IF FileIdIsTraversal(fileId)
    THEN Handled(Http(400, "Invalid file ID", NoMsg, NoData), <<>>)
  ELSE IF Falsy(ExtractBatchJobIdFromFileId(fileId))
    THEN Handled(Http(400, "Could not determine batch job ID from file ID", NoMsg,
                      NoData), <<>>)
  ELSE LET structurePath ==
             BatchFilePath(fileId, << <<"output">>, <<"processing">>,
                                      <<"output_tree.json">> >>)
           code == IF FsIsDir(structurePath) THEN "EISDIR" ELSE FsErrno(structurePath)
           events == <<Ev("path", "", structurePath), Ev("fs", "readFile", structurePath)>>
       IN  IF code = ""
             THEN Handled(Http(200, "", NoMsg, Data("json", structurePath, <<>>, {})),
                          events)
           ELSE Handled(Http(500, "Failed to read document structure",
                             ErrnoMsg(code, structurePath), NoData), events)

\* router.get('/files/:fileId/structure')
BatchStructureHandler(fileId) ==
  IF fileId = <<>>
    THEN Handled(Http(400, "File ID is required", NoMsg, NoData), <<>>)
  ELSE IF FileIdIsTraversal(fileId)
    THEN Handled(Http(400, "Invalid file ID", NoMsg, NoData), <<>>)
  ELSE IF Falsy(ExtractBatchJobIdFromFileId(fileId))
    THEN Handled(Http(400, "Could not determine batch job ID from file ID", NoMsg,
                      NoData), <<>>)
  ELSE LET structurePath ==
             BatchFilePath(fileId, << <<"output">>, <<"processing">>,
                                      <<"output_tree.json">> >>)
           code == IF FsIsDir(structurePath) THEN "EISDIR" ELSE FsErrno(structurePath)
           events == <<Ev("path", "", structurePath), Ev("fs", "readFile", structurePath)>>
       IN  IF code = ""
             THEN Handled(Http(200, "", NoMsg, Data("json", structurePath, <<>>, {})),
                          events)
           ELSE IF code = "ENOENT"
             THEN Handled(Http(404, "Document structure not found", NoMsg, NoData), events)
           ELSE Handled(Http(500, "Failed to read document structure",
                             ErrnoMsg(code, structurePath), NoData), events)

\* /\.(jpeg|jpg|png|gif|webp)$/i.test(file)
RouteImageRegex(file) ==
  /\ Len(file) >= 2
  /\ file[Len(file) - 1] = "."
  /\ ToLowerCase(<<file[Len(file)]>>)[1] \in {"jpeg", "jpg", "png", "gif", "webp"}

\* router.get('/files/:fileId/images'); files is what fs.readdir(processingDir)
\* returns when it succeeds
BatchImagesHandler(fileId, files) ==
  IF fileId = <<>>
    THEN Handled(Http(400, "File ID is required", NoMsg, NoData), <<>>)
  ELSE IF FileIdIsTraversal(fileId)
    THEN Handled(Http(400, "Invalid file ID", NoMsg, NoData), <<>>)
  ELSE IF Falsy(ExtractBatchJobIdFromFileId(fileId))
    THEN Handled(Http(400, "Could not determine batch job ID from file ID", NoMsg,
                      NoData), <<>>)
  ELSE LET processingDir == BatchFilePath(fileId, << <<"output">>, <<"processing">> >>)
           code == IF FsIsFile(processingDir) THEN "ENOTDIR" ELSE FsErrno(processingDir)
           events == <<Ev("path", "", processingDir), Ev("fs", "readdir", processingDir)>>
           imageFiles == SelectSeq(files, RouteImageRegex)
       IN  IF code = ""
             THEN Handled(Http(200, "", NoMsg, Data("images", processingDir, imageFiles,
                                                    {})), events)
           ELSE IF code = "ENOENT"
             THEN Handled(Http(200, "", NoMsg, Data("images", NoPath, <<>>, {})), events)
           ELSE Handled(Http(500, "Failed to list images", ErrnoMsg(code, processingDir),
                             NoData), events)

\* The keys of contentTypes in the image route
BatchImageExts ==
  {<<".", "jpeg">>, <<".", "jpg">>, <<".", "png">>, <<".", "gif">>, <<".", "webp">>}

\* router.get('/files/:fileId/images/:imageName')
BatchImageHandler(fileId, imageName) ==
  IF fileId = <<>> \/ imageName = <<>>
    THEN Handled(Http(400, "File ID and image name are required", NoMsg, NoData), <<>>)
  ELSE IF FileIdIsTraversal(fileId) \/ FileIdIsTraversal(imageName)
    THEN Handled(Http(400, "Invalid file ID or image name", NoMsg, NoData), <<>>)
  ELSE IF Falsy(ExtractBatchJobIdFromFileId(fileId))
    THEN Handled(Http(400, "Could not determine batch job ID from file ID", NoMsg,
                      NoData), <<>>)
  ELSE LET imagePath ==
             BatchFilePath(fileId, << <<"output">>, <<"processing">>, imageName>>)
           code == FsErrno(imagePath)
           e1 == <<Ev("path", "", imagePath), Ev("fs", "access", imagePath)>>
       IN  IF code = ""
             THEN Handled(Http(200, "", NoMsg, Data("stream", imagePath, <<>>, {})),
                          Append(e1, Ev("fs", "createReadStream", imagePath)))
           ELSE IF code = "ENOENT"
             THEN Handled(Http(404, "Image not found", NoMsg, NoData), e1)
           ELSE Handled(Http(500, "Failed to serve image", ErrnoMsg(code, imagePath),
                             NoData), e1)

\* router.get('/files/:fileId/pdf')
BatchPdfHandler(fileId) ==
  IF fileId = <<>>
    THEN Handled(Http(400, "File ID is required", NoMsg, NoData), <<>>)
  ELSE IF FileIdIsTraversal(fileId)
    THEN Handled(Http(400, "Invalid file ID", NoMsg, NoData), <<>>)
  ELSE IF Falsy(ExtractBatchJobIdFromFileId(fileId))
    THEN Handled(Http(400, "Could not determine batch job ID from file ID", NoMsg,
                      NoData), <<>>)
  ELSE LET pdfPath == BatchFilePath(fileId, << <<"input">>, <<"original.pdf">> >>)
           code == FsErrno(pdfPath)
           e1 == <<Ev("path", "", pdfPath), Ev("fs", "access", pdfPath)>>
       IN  IF code = ""
             THEN Handled(Http(200, "", NoMsg, Data("stream", pdfPath, <<>>, {})),
                          Append(e1, Ev("fs", "createReadStream", pdfPath)))
           ELSE IF code = "ENOENT"
             THEN Handled(Http(404, "PDF not found", Msg("Could not find PDF at path",
                               <<>>, pdfPath), NoData), e1)
           ELSE Handled(Http(500, "Failed to serve PDF", ErrnoMsg(code, pdfPath), NoData),
                        e1)

\* router.get('/') of the batch routes
BatchListHandler ==
  LET root == PathJoin(<<BATCH_OUTPUTS_DIR>>)
      code == IF FsIsFile(root) THEN "ENOTDIR" ELSE FsErrno(root)
      jobs == {n \in FsReaddir(root) :
                 FsIsDir(Append(root, n)) /\ ReadStatusFile(n).code = ""}
      dirs == SortNames({n \in FsReaddir(root) : FsIsDir(Append(root, n))})
      e1 == <<Ev("fs", "readdir", root)>>
      e2 == [i \in 1..Len(dirs) |-> Ev("fs", "readFile", ReadStatusFile(dirs[i]).path)]
  IN  IF code = ""
        THEN Handled(Http(200, "", NoMsg, Data("jobs", root, <<>>, jobs)), e1 \o e2)
        ELSE Handled(Http(500, "Failed to list batch jobs", ErrnoMsg(code, root), NoData),
                     e1)

(***************************************************************************)
(* Document routes (routes/documentRoutes.ts)                              *)
(***************************************************************************)
\* The arguments the document routes leave out: userGroupIds is undefined (no
\* group) and isAdmin takes its default, false
UndefinedGroupIds == {}

\* router.get('/') of the document routes
DocumentListHandler ==
  LET r == GetAllDocuments(UndefinedGroupIds, FALSE)
  IN  IF ~r.threw THEN Handled(Http(200, "", NoMsg, r.data), r.events)
      ELSE Handled(Http(500, "Failed to fetch documents", r.message, NoData), r.events)

\* router.get('/:id') of the document routes
DocumentGetHandler(id) ==
  IF id = <<>> THEN Handled(Http(400, "Document ID is required", NoMsg, NoData), <<>>)
  ELSE LET r == GetDocumentById(id, UndefinedGroupIds, FALSE)
       IN  IF ~r.threw THEN Handled(Http(200, "", NoMsg, r.data), r.events)
           ELSE IF MessageIncludesNotFound(r.message)
             THEN Handled(Http(404, "Document not found", r.message, NoData), r.events)
           ELSE Handled(Http(500, "Failed to fetch document", r.message, NoData),
                        r.events)

(***************************************************************************)
(* Requests and results                                                    *)
(***************************************************************************)
Req(op, token, id, imageName, groupIds, isAdmin, username, password) ==
  [op |-> op, token |-> token, id |-> id, imageName |-> imageName,
   groupIds |-> groupIds, isAdmin |-> isAdmin, username |-> username,
   password |-> password]

NoReq == Req("none", NoToken, <<>>, <<>>, {}, FALSE, "", "")

\* A direct call of a DocumentService method by a caller that supplies the principal
ServiceReq(op, id, groupIds, isAdmin) ==
  Req(op, NoToken, id, <<>>, groupIds, isAdmin, "", "")

\* An HTTP request: the bearer token of its Authorization header and its parameters
RouteReq(op, token, id, imageName) == Req(op, token, id, imageName, {}, FALSE, "", "")

NoRes ==
  [kind |-> "none", status |-> 0, error |-> "", threw |-> FALSE, message |-> NoMsg,
   code |-> "", data |-> NoData]

CallResult(r) ==
  [kind |-> "call", status |-> 0, error |-> "", threw |-> r.threw,
   message |-> r.message, code |-> r.code, data |-> r.data]

HttpResult(h) ==
  [kind |-> "http", status |-> h.status, error |-> h.error, threw |-> FALSE,
   message |-> h.message, code |-> "", data |-> h.data]

\* The request answered before the current one, with its result and its steps
Answered(r, result, events) == [req |-> r, res |-> result, trace |-> events]

NoPrev == Answered(NoReq, NoRes, <<>>)

\* A route behind the authenticate middleware: 401 without calling the handler
\* when authenticate finds no user, else the handler's response
Protected(token, op, handled) ==
  IF Authenticate(token) = NoUser
    THEN Handled(Unauthorized, <<Ev("authn", "Deny", NoPath)>>)
    ELSE Handled(handled.response,
                 <<Ev("authn", "Grant", NoPath), Ev("handler", op, NoPath)>>
                   \o handled.events)

\* A route registered without the middleware: the handler runs for every request
Unprotected(token, op, handled) ==
  Handled(handled.response, <<Ev("handler", op, NoPath)>> \o handled.events)

\* The request is answered: nothing but the record of it changes
Finish(r, result, events) ==
  /\ req' = r
  /\ res' = result
  /\ trace' = events
  /\ UNCHANGED <<sessions, issued, now, docs, fs, prev, frontend>>

(***************************************************************************)
(* The frontend's state: DashboardContent (app/dashboard/page.tsx) and the  *)
(* API client with the browser's localStorage (lib/api.ts)                 *)
(***************************************************************************)
\* DashboardContent before it is mounted; the fields are its useState values
\* at their initial values, effectDeps the dependency values the auto-load
\* effect last ran with, last the event that last changed the state
DashboardUnmounted ==
  [mounted |-> FALSE, viewMode |-> "single", batchJobs |-> 0, batchLoading |-> FALSE,
   batchError |-> FALSE, batchRetryCount |-> 0, documentsRequested |-> FALSE,
   effectDeps |-> <<>>, last |-> "none"]

\* The component on its first render
DashboardMounted == [DashboardUnmounted EXCEPT !.mounted = TRUE, !.last = "mount"]

\* The browser on the login page with token stored under 'sessionToken' ("" for
\* no item), the requests of the API client that are in flight, and the
\* document the viewer has been opened for
ClientAtLogin(token) ==
  [sessionToken |-> token, user |-> IF token = "" THEN "" ELSE "user", page |-> "login",
   redirect |-> FALSE, inflight |-> <<>>, last |-> "none", documentId |-> <<>>]

\* No frontend takes part
NoFrontend == dashboard = DashboardUnmounted /\ client = ClientAtLogin("")

(***************************************************************************)
(* Operations: direct calls of DocumentService                             *)
(***************************************************************************)
AnswerGetDocumentById(r) ==
  LET x == GetDocumentById(r.id, r.groupIds, r.isAdmin)
  IN  Answered(r, CallResult(x), x.events)

CallGetDocumentById(r) ==
  /\ r.op = "getDocumentById"
  /\ Finish(r, AnswerGetDocumentById(r).res, AnswerGetDocumentById(r).trace)

AnswerGetDocumentImages(r) ==
  LET x == GetDocumentImages(r.id, r.groupIds, r.isAdmin)
  IN  Answered(r, CallResult(x), x.events)

CallGetDocumentImages(r) ==
  /\ r.op = "getDocumentImages"
  /\ Finish(r, AnswerGetDocumentImages(r).res, AnswerGetDocumentImages(r).trace)

CallGetBatchDocumentStructure(r) ==
  /\ r.op = "getBatchDocumentStructure"
  /\ LET x == GetBatchDocumentStructure(r.id)
     IN  Finish(r, CallResult(x), x.events)

CallGetAllDocuments(r) ==
  /\ r.op = "getAllDocuments"
  /\ LET x == GetAllDocuments(r.groupIds, r.isAdmin)
     IN  Finish(r, CallResult(x), x.events)

(***************************************************************************)
(* Operations: HTTP routes                                                 *)
(***************************************************************************)
\* batchRoutes.ts: router.use(authenticate) protects every route of the router
RouteBatchList(r) ==
  /\ r.op = "batchList"
  /\ LET h == Protected(r.token, r.op, BatchListHandler)
     IN  Finish(r, HttpResult(h.response), h.events)

RouteBatchStatus(r) ==
  /\ r.op = "batchStatus"
  /\ LET h == Protected(r.token, r.op, BatchStatusHandler(r.id))
     IN  Finish(r, HttpResult(h.response), h.events)

RouteBatchStructureCreatesFolder(r) ==
  /\ r.op = "batchStructure"
  /\ LET h == Protected(r.token, r.op, BatchStructureHandler(r.id))
         made == {h.events[i].path : i \in {j \in 1..Len(h.events) : h.events[j].ev = "path"}}
     IN  /\ req' = r
         /\ res' = HttpResult(h.response)
         /\ trace' = h.events
         /\ fs' = [fs EXCEPT !.dirs = @ \cup {p \in made : FsErrno(p) = "ENOENT"}]
         /\ UNCHANGED <<sessions, issued, now, docs, prev, frontend>>

RouteBatchStructure(r) ==
  /\ r.op = "batchStructure"
  /\ LET h == Protected(r.token, r.op, BatchStructureHandler(r.id))
     IN  Finish(r, HttpResult(h.response), h.events)

RouteBatchImages(r) ==
  /\ r.op = "batchImages"
  /\ \E files \in ReaddirOrders(BatchFilePath(r.id, << <<"output">>, <<"processing">> >>)) :
       LET h == Protected(r.token, r.op, BatchImagesHandler(r.id, files))
       IN  Finish(r, HttpResult(h.response), h.events)

RouteBatchImage(r) ==
  /\ r.op = "batchImage"
  /\ LET h == Protected(r.token, r.op, BatchImageHandler(r.id, r.imageName))
     IN  Finish(r, HttpResult(h.response), h.events)

RouteBatchPdf(r) ==
  /\ r.op = "batchPdf"
  /\ LET h == Protected(r.token, r.op, BatchPdfHandler(r.id))
     IN  Finish(r, HttpResult(h.response), h.events)

\* documentRoutes.ts registers its two routes without the authenticate middleware
RouteDocumentList(r) ==
  /\ r.op = "documentList"
  /\ LET h == Unprotected(r.token, r.op, DocumentListHandler)
     IN  Finish(r, HttpResult(h.response), h.events)

AnswerDocumentGet(r) ==
  LET h == Unprotected(r.token, r.op, DocumentGetHandler(r.id))
  IN  Answered(r, HttpResult(h.response), h.events)

RouteDocumentGet(r) ==
  /\ r.op = "documentGet"
  /\ Finish(r, AnswerDocumentGet(r).res, AnswerDocumentGet(r).trace)

(***************************************************************************)
(* Worlds: the document records and the files a request may find           *)
(***************************************************************************)
DocA == <<"a">>

DocAA == <<"a", "a">>

BatchFileA == <<"a", ":", "a">>

OutputsRoot == PathJoin(<<OUTPUTS_DIR>>)

BatchRoot == PathJoin(<<BATCH_OUTPUTS_DIR>>)

TreeOf(documentId) == PathJoin(<<OUTPUTS_DIR, documentId, OUTPUT_TREE_FILENAME>>)

BatchFolderA == BatchRoot \o << <<"a">>, <<"a", "_", "a">> >>

BatchProcessingA == BatchFolderA \o << <<"output">>, <<"processing">> >>

\* Nothing on disk, not even the roots
FsEmpty == [files |-> {}, dirs |-> {}]

\* Both catalog documents and the batch file a:a of job a are processed
FsFull ==
  [files |->
     {TreeOf(DocA), TreeOf(DocAA),
      OutputsRoot \o <<DocA, <<"a", ".", "png">> >>,
      OutputsRoot \o <<DocA, <<"a", ".", "txt">> >>,
      OutputsRoot \o <<DocA, <<"_", ".", "PNG">> >>,
      BatchRoot \o << <<"a">>, <<"status.json">> >>,
      BatchProcessingA \o << <<"output_tree.json">> >>,
      BatchProcessingA \o << <<"a", ".", "png">> >>,
      BatchProcessingA \o << <<"a", ".", "gif">> >>,
      BatchProcessingA \o << <<"a", ".", "txt">> >>,
      BatchFolderA \o << <<"input">>, <<"original.pdf">> >>},
   dirs |-> {}]

\* The folders exist and hold no output yet
FsBare ==
  [files |-> {},
   dirs |-> {OutputsRoot \o <<DocA>>, BatchFolderA}]

FsWorlds == {FsEmpty, FsFull, FsBare}

Records == {NoRecord} \cup {Record(P, b) : P \in SUBSET Groups, b \in BOOLEAN}

DocWorlds ==
  {[d \in {DocA, DocAA} |-> IF d = DocA THEN ra ELSE rb] :
     ra \in Records, rb \in {NoRecord, Record({}, TRUE), Record({"G2"}, TRUE)}}

\* The store of the requests that range over every identifier
DocsFixed == [d \in {DocA, DocAA} |-> IF d = DocA THEN Record({"G1"}, TRUE)
                                                  ELSE Record({}, TRUE)]

Principals == [groupIds : SUBSET Groups, isAdmin : BOOLEAN]

FewPrincipals ==
  {[groupIds |-> {"G1"}, isAdmin |-> FALSE], [groupIds |-> {}, isAdmin |-> TRUE]}

SmallIds == {DocA, DocAA, BatchFileA, <<"_">>}

ImageNames == {<<"a", ".", "png">>, <<"a", ".", "gif">>, <<"a", ".", "txt">>}

IdOps == {"getDocumentById", "getDocumentImages"}

IdRoutes == {"batchStatus", "batchStructure", "batchImages", "batchPdf", "documentGet"}

\* Requests over every identifier string, in one world
RequestByString ==
  \/ \E op \in IdOps, id \in Strings, p \in FewPrincipals :
        req = ServiceReq(op, id, p.groupIds, p.isAdmin)
  \/ \E id \in Strings : req = ServiceReq("getBatchDocumentStructure", id, {}, FALSE)
  \/ \E op \in IdRoutes, t \in {NoToken, "t1"}, id \in NonEmptyStrings :
        req = RouteReq(op, t, id, <<>>)
  \/ \E id \in NonEmptyStrings, n \in ImageNames : req = RouteReq("batchImage", "t1", id, n)
  \/ \E n \in NonEmptyStrings : req = RouteReq("batchImage", "t1", BatchFileA, n)

\* Requests for a few identifiers, by every principal, in every world
RequestByWorld ==
  \/ \E op \in IdOps, id \in SmallIds, p \in Principals :
        req = ServiceReq(op, id, p.groupIds, p.isAdmin)
  \/ \E p \in Principals : req = ServiceReq("getAllDocuments", <<>>, p.groupIds, p.isAdmin)
  \/ \E op \in IdRoutes, t \in {NoToken} \cup Tokens, id \in SmallIds :
        req = RouteReq(op, t, id, <<>>)
  \/ \E op \in {"batchList", "documentList"}, t \in {NoToken} \cup Tokens :
        req = RouteReq(op, t, <<>>, <<>>)
  \/ \E t \in {NoToken} \cup Tokens, n \in ImageNames :
        req = RouteReq("batchImage", t, BatchFileA, n)

\* The session table the requests meet: root logged in at 0 and has expired,
\* alice logged in at 24 and is active
SessionsFixed ==
  [t \in Tokens |-> IF t = "t1" THEN Session("alice", 24) ELSE Session("root", 0)]

\* The log of the sessions ever created, which the table above comes from
IssuedFixed ==
  {[token |-> "t1", userId |-> "alice", expiresAt |-> 48],
   [token |-> "t2", userId |-> "root", expiresAt |-> 24]}

(***************************************************************************)
(* Spec: one request, drawn from the bounded input space, is answered      *)
(***************************************************************************)
Init ==
  /\ NoFrontend
  /\ sessions = SessionsFixed
  /\ issued = IssuedFixed
  /\ now = 36
  /\ res = NoRes
  /\ trace = <<>>
  /\ prev = NoPrev
  /\ \/ /\ RequestByString
        /\ docs = DocsFixed
        /\ fs = FsFull
     \/ /\ RequestByWorld
        /\ docs \in DocWorlds
        /\ fs \in FsWorlds

Pending == res.kind = "none" /\ req.op # "none"

\* The caller of an answered document request asks for another document
FollowUp ==
  /\ res.kind # "none"
  /\ prev = NoPrev
  /\ req.id \in SmallIds
  /\ req.op \in {"getDocumentById", "getDocumentImages", "documentGet"}
  /\ \E d \in SmallIds \ {req.id} :
       LET r == [req EXCEPT !.id = d]
           a == IF req.op = "getDocumentById" THEN AnswerGetDocumentById(r)
                ELSE IF req.op = "getDocumentImages" THEN AnswerGetDocumentImages(r)
                ELSE AnswerDocumentGet(r)
       IN  /\ req' = r
           /\ res' = a.res
           /\ trace' = a.trace
           /\ prev' = Answered(req, res, trace)
           /\ UNCHANGED <<sessions, issued, now, docs, fs, frontend>>

\* The operations that resolve an identifier to one file and read it
LocateOps ==
  {"getDocumentById", "getBatchDocumentStructure", "documentGet", "batchStructure",
   "batchImage", "batchPdf"}

\* The files on disk change (the processing pipeline writes or removes its
\* outputs) and the caller of an answered request sends the same request again
RequestAgain ==
  /\ res.kind # "none"
  /\ prev = NoPrev
  /\ req.id \in SmallIds
  /\ req.op \in LocateOps
  /\ \E w \in FsWorlds \ {fs} : fs' = w
  /\ res' = NoRes
  /\ trace' = <<>>
  /\ prev' = Answered(req, res, trace)
  /\ UNCHANGED <<sessions, issued, now, docs, req, frontend>>

Next ==
  \/ Pending /\ CallGetDocumentById(req)
  \/ Pending /\ CallGetDocumentImages(req)
  \/ Pending /\ CallGetBatchDocumentStructure(req)
  \/ Pending /\ CallGetAllDocuments(req)
  \/ Pending /\ RouteBatchList(req)
  \/ Pending /\ RouteBatchStatus(req)
  \/ Pending /\ RouteBatchStructure(req)
  \/ Pending /\ RouteBatchImages(req)
  \/ Pending /\ RouteBatchImage(req)
  \/ Pending /\ RouteBatchPdf(req)
  \/ Pending /\ RouteDocumentList(req)
  \/ Pending /\ RouteDocumentGet(req)
  \/ FollowUp
  \/ RequestAgain

Spec == Init /\ [][Next]_vars

(***************************************************************************)
(* Auth routes (routes/authRoutes.ts) over AuthService                     *)
(***************************************************************************)
AuthMsg(text) == Msg(text, <<>>, NoPath)

UserData(user) == Data("user", NoPath, << <<user.userId>> >>, user.groupIds)

\* AuthService.login's check of the credentials against the user store
CredentialsValid(username, password) ==
  username \in Users /\ password = UserPassword(username)

IssuedTokens == {s.token : s \in issued}

\* The request is answered and the session table becomes table
FinishSession(r, result, events, table, log) ==
  /\ req' = r
  /\ res' = result
  /\ trace' = events
  /\ sessions' = table
  /\ issued' = log
  /\ UNCHANGED <<now, docs, fs, prev, frontend>>

RouteLoginRevealsUser(r) ==
  /\ r.op = "login"
  /\ IF r.username = "" \/ r.password = ""
       THEN Finish(r, HttpResult(Http(400, "", AuthMsg("Username and password are required"),
                                      NoData)), <<Ev("handler", r.op, NoPath)>>)
     ELSE IF r.username \notin Users
       THEN Finish(r, HttpResult(Http(401, "", AuthMsg("User not found"), NoData)),
                   <<Ev("handler", r.op, NoPath)>>)
     ELSE IF ~CredentialsValid(r.username, r.password)
       THEN Finish(r, HttpResult(Http(401, "", AuthMsg("Invalid username or password"),
                                      NoData)), <<Ev("handler", r.op, NoPath)>>)
     ELSE \E t \in Tokens \ IssuedTokens :
            FinishSession(r,
              HttpResult(Http(200, "", AuthMsg("Login successful"),
                              Data("session", NoPath, << <<t>> >>, {r.username}))),
              <<Ev("handler", r.op, NoPath)>>,
              [sessions EXCEPT ![t] = Session(r.username, now)],
              issued \cup {[token |-> t, userId |-> r.username,
                            expiresAt |-> now + SessionHours]})

\* router.post('/login'); AuthService.login creates the session under a token
\* never issued before
RouteLogin(r) ==
  /\ r.op = "login"
  /\ IF r.username = "" \/ r.password = ""
       THEN Finish(r, HttpResult(Http(400, "", AuthMsg("Username and password are required"),
                                      NoData)), <<Ev("handler", r.op, NoPath)>>)
     ELSE IF ~CredentialsValid(r.username, r.password)
       THEN Finish(r, HttpResult(Http(401, "", AuthMsg("Invalid username or password"),
                                      NoData)), <<Ev("handler", r.op, NoPath)>>)
     ELSE \E t \in Tokens \ IssuedTokens :
            FinishSession(r,
              HttpResult(Http(200, "", AuthMsg("Login successful"),
                              Data("session", NoPath, << <<t>> >>, {r.username}))),
              <<Ev("handler", r.op, NoPath)>>,
              [sessions EXCEPT ![t] = Session(r.username, now)],
              issued \cup {[token |-> t, userId |-> r.username,
                            expiresAt |-> now + SessionHours]})

RouteLogoutAllOfUser(r) ==
  /\ r.op = "logout"
  /\ IF Authenticate(r.token) = NoUser
       THEN Finish(r, HttpResult(Unauthorized), <<Ev("authn", "Deny", NoPath)>>)
     ELSE FinishSession(r,
            HttpResult(Http(200, "", AuthMsg("Logout successful"), NoData)),
            <<Ev("authn", "Grant", NoPath), Ev("handler", r.op, NoPath)>>,
            [t \in Tokens |->
               IF sessions[t].userId = sessions[r.token].userId THEN NoSession
               ELSE sessions[t]],
            issued)

RouteLogoutIdempotent(r) ==
  /\ r.op = "logout"
  /\ FinishSession(r,
       HttpResult(Http(200, "", AuthMsg("Logout successful"), NoData)),
       <<Ev("handler", r.op, NoPath)>>,
       [t \in Tokens |-> IF t = r.token THEN NoSession ELSE sessions[t]], issued)

RouteLogoutNoDelete(r) ==
  /\ r.op = "logout"
  /\ IF Authenticate(r.token) = NoUser
       THEN Finish(r, HttpResult(Unauthorized), <<Ev("authn", "Deny", NoPath)>>)
     ELSE Finish(r, HttpResult(Http(200, "", AuthMsg("Logout successful"), NoData)),
                 <<Ev("authn", "Grant", NoPath), Ev("handler", r.op, NoPath)>>)

\* router.post('/logout', authenticate, ...); AuthService.logout deletes the session
RouteLogout(r) ==
  /\ r.op = "logout"
  /\ IF Authenticate(r.token) = NoUser
       THEN Finish(r, HttpResult(Unauthorized), <<Ev("authn", "Deny", NoPath)>>)
     ELSE IF r.token = NoToken
       THEN Finish(r, HttpResult(Http(400, "", AuthMsg("No active session"), NoData)),
                   <<Ev("authn", "Grant", NoPath), Ev("handler", r.op, NoPath)>>)
     ELSE FinishSession(r,
            HttpResult(Http(200, "", AuthMsg("Logout successful"), NoData)),
            <<Ev("authn", "Grant", NoPath), Ev("handler", r.op, NoPath)>>,
            [sessions EXCEPT ![r.token] = NoSession], issued)

\* router.get('/me', authenticate, ...)
MeHandler(token) == Handled(Http(200, "", NoMsg, UserData(Authenticate(token))), <<>>)

RouteMe(r) ==
  /\ r.op = "me"
  /\ LET h == Protected(r.token, r.op, MeHandler(r.token))
     IN  Finish(r, HttpResult(h.response), h.events)

ValidateHandlerAcceptsAll(sessionToken) ==
  IF sessionToken = NoToken
    THEN Handled(Http(400, "", AuthMsg("Session token is required"), NoData), <<>>)
    ELSE Handled(Http(200, "", NoMsg, UserData(ValidateSession(sessionToken))), <<>>)

\* router.post('/validate')
ValidateHandler(sessionToken) ==
  IF sessionToken = NoToken
    THEN Handled(Http(400, "", AuthMsg("Session token is required"), NoData), <<>>)
  ELSE IF ValidateSession(sessionToken) = NoUser
    THEN Handled(Http(401, "", AuthMsg("Invalid or expired session"), NoData), <<>>)
  ELSE Handled(Http(200, "", NoMsg, UserData(ValidateSession(sessionToken))), <<>>)

RouteValidateSliding(r) ==
  /\ r.op = "validate"
  /\ LET h == Unprotected(r.token, r.op, ValidateHandler(r.token))
     IN  FinishSession(r, HttpResult(h.response), h.events,
           IF h.response.status = 200
             THEN [sessions EXCEPT ![r.token] = Session(@.userId, now)]
             ELSE sessions,
           issued)

RouteValidate(r) ==
  /\ r.op = "validate"
  /\ LET h == Unprotected(r.token, r.op, ValidateHandler(r.token))
     IN  Finish(r, HttpResult(h.response), h.events)

\* Time passes
Tick ==
  /\ now + TickHours <= MaxTime
  /\ now' = now + TickHours
  /\ UNCHANGED <<sessions, issued, docs, fs, req, res, trace, prev, frontend>>

\* The row of an expired session is removed from the table
CollectExpired ==
  \E t \in Tokens :
    /\ sessions[t].exists
    /\ now > sessions[t].expiresAt
    /\ sessions' = [sessions EXCEPT ![t] = NoSession]
    /\ UNCHANGED <<issued, now, docs, fs, req, res, trace, prev, frontend>>

\* The response has been sent: the server is ready for the next request
Respond ==
  /\ req.op # "none"
  /\ req' = NoReq
  /\ res' = NoRes
  /\ trace' = <<>>
  /\ prev' = NoPrev
  /\ UNCHANGED <<sessions, issued, now, docs, fs, frontend>>

\* The response to a validate has been sent and the client validates the same
\* token again at once
RespondThenRevalidate ==
  /\ req.op = "validate"
  /\ res.kind # "none"
  /\ prev = NoPrev
  /\ req' = NoReq
  /\ res' = NoRes
  /\ trace' = <<>>
  /\ prev' = Answered(req, res, trace)
  /\ UNCHANGED <<sessions, issued, now, docs, fs, frontend>>

(***************************************************************************)
(* SpecSession: logins, logouts, validations and requests to the routes,   *)
(* in any order, as time passes                                            *)
(***************************************************************************)
Usernames == Users \cup {"mallory", ""}

Passwords == {"pw-alice", "pw-root", ""}

AnyToken == {NoToken} \cup Tokens

SessionInit ==
  /\ NoFrontend
  /\ sessions = [t \in Tokens |-> NoSession]
  /\ issued = {}
  /\ now = 0
  /\ docs = DocsFixed
  /\ fs = FsFull
  /\ req = NoReq
  /\ res = NoRes
  /\ trace = <<>>
  /\ prev = NoPrev

Idle == req.op = "none" /\ prev = NoPrev

Revalidate == req.op = "none" /\ prev # NoPrev /\ RouteValidate(prev.req)

SessionNext ==
  \/ Idle /\ \E u \in Usernames, pw \in Passwords :
               RouteLogin(Req("login", NoToken, <<>>, <<>>, {}, FALSE, u, pw))
  \/ Idle /\ \E t \in AnyToken : RouteLogout(RouteReq("logout", t, <<>>, <<>>))
  \/ Idle /\ \E t \in AnyToken : RouteMe(RouteReq("me", t, <<>>, <<>>))
  \/ Idle /\ \E t \in AnyToken : RouteValidate(RouteReq("validate", t, <<>>, <<>>))
  \/ Idle /\ \E t \in AnyToken : RouteBatchList(RouteReq("batchList", t, <<>>, <<>>))
  \/ Idle /\ \E t \in AnyToken :
               RouteBatchStatus(RouteReq("batchStatus", t, <<"a">>, <<>>))
  \/ Idle /\ \E t \in AnyToken :
               RouteBatchStructure(RouteReq("batchStructure", t, BatchFileA, <<>>))
  \/ Idle /\ \E t \in AnyToken :
               RouteBatchImages(RouteReq("batchImages", t, BatchFileA, <<>>))
  \/ Idle /\ \E t \in AnyToken :
               RouteBatchImage(RouteReq("batchImage", t, BatchFileA, <<"a", ".", "png">>))
  \/ Idle /\ \E t \in AnyToken : RouteBatchPdf(RouteReq("batchPdf", t, BatchFileA, <<>>))
  \/ Idle /\ \E t \in AnyToken : RouteDocumentList(RouteReq("documentList", t, <<>>, <<>>))
  \/ Idle /\ \E t \in AnyToken, id \in {DocA, BatchFileA} :
               RouteDocumentGet(RouteReq("documentGet", t, id, <<>>))
  \/ Idle /\ Tick
  \/ Idle /\ CollectExpired
  \/ Respond
  \/ RespondThenRevalidate
  \/ Revalidate

SpecSession == SessionInit /\ [][SessionNext]_vars


(***************************************************************************)
(* The API client (lib/api.ts, as install/build.sh writes it)              *)
(***************************************************************************)
backend == <<sessions, issued, now, docs, fs, req, res, trace, prev>>

\* The backend as the frontend's specifications leave it: no request pending
BackendIdle ==
  /\ sessions = SessionsFixed
  /\ issued = IssuedFixed
  /\ now = 36
  /\ docs = DocsFixed
  /\ fs = FsFull
  /\ req = NoReq
  /\ res = NoRes
  /\ trace = <<>>
  /\ prev = NoPrev

\* `Bearer ${sessionToken}`
Bearer(token) == <<"Bearer", token>>

\* A request without an Authorization header
NoHeader == <<>>

\* apiClient.interceptors.request: the request as it leaves the client whose
\* state is c; by says who asked for it
RequestInterceptor(c, op, by) ==
  [op |-> op, by |-> by,
   authorization |-> IF c.sessionToken # "" THEN Bearer(c.sessionToken) ELSE NoHeader]

ResponseInterceptorKeepsUser(c, status) ==
  IF status = 401
    THEN [c EXCEPT !.sessionToken = "", !.redirect = @ \/ c.page # "login"]
    ELSE c

\* apiClient.interceptors.response: the client after a response with status;
\* redirect says that window.location.href has been set to /login
ResponseInterceptor(c, status) ==
  IF status = 401
    THEN [c EXCEPT !.sessionToken = "", !.user = "",
                   !.redirect = @ \/ c.page # "login"]
    ELSE c

\* The sequence without its i-th element
RemoveAt(s, i) == SubSeq(s, 1, i - 1) \o SubSeq(s, i + 1, Len(s))

\* The positions of the requests for op that are in flight
InFlight(op) == {i \in 1..Len(client.inflight) : client.inflight[i].op = op}

\* The client sends a request
Send(c, op, by) ==
  [c EXCEPT !.inflight = Append(@, RequestInterceptor(c, op, by)), !.last = "request"]

\* The response with status to the i-th request in flight arrives
Receive(c, i, status) ==
  [ResponseInterceptor(c, status) EXCEPT !.inflight = RemoveAt(@, i),
                                         !.last = IF status = 200 THEN "200"
                                                  ELSE IF status = 401 THEN "401"
                                                  ELSE "500"]

\* The statuses of a failed request
FailureStatuses == {401, 500}

(***************************************************************************)
(* The login page and the navigation between the pages                     *)
(***************************************************************************)
\* login(credentials) is called from the login page
SubmitLogin ==
  /\ client.page = "login"
  /\ ~client.redirect
  /\ InFlight("login") = {}
  /\ client' = Send(client, "login", "user")
  /\ UNCHANGED <<backend, dashboard>>

\* The login is answered: on success the caller of login() stores the token
\* and the user
LoginResponds ==
  /\ \E i \in InFlight("login") :
       \/ \E t \in Tokens :
            client' = [Receive(client, i, 200) EXCEPT !.sessionToken = t, !.user = "user"]
       \/ client' = Receive(client, i, 401)
  /\ UNCHANGED <<backend, dashboard>>

\* The user with a stored session goes to the dashboard; DashboardContent mounts
OpenDashboard ==
  /\ client.page = "login"
  /\ ~client.redirect
  /\ client.sessionToken # ""
  /\ client.inflight = <<>>
  /\ client' = [client EXCEPT !.page = "dashboard", !.last = "open"]
  /\ dashboard' = DashboardMounted
  /\ UNCHANGED backend

\* window.location.href = '/login' takes effect: the page is unloaded with the
\* component and the requests it was waiting for
Navigate ==
  /\ client.redirect
  /\ client' = [client EXCEPT !.page = "login", !.redirect = FALSE, !.inflight = <<>>,
                              !.last = "navigate"]
  /\ dashboard' = DashboardUnmounted
  /\ UNCHANGED backend

(***************************************************************************)
(* DashboardContent (app/dashboard/page.tsx)                               *)
(***************************************************************************)
\* The length of the longest job list a fetch returns
MaxJobs == 2

\* The Retry button is pressed only while batchRetryCount is below this
MaxRetryCount == 7

\* batchRetryCount >= 5
RetryLimit == 5

\* The dependency values of the auto-load effect (batchJobs.length stands for
\* batchJobs; loadBatchJobs never changes)
Deps(d) == <<d.viewMode, d.batchJobs, d.batchLoading, d.batchRetryCount>>

\* A render has changed a dependency and the auto-load effect has not run yet
EffectPending == dashboard.mounted /\ dashboard.effectDeps # Deps(dashboard)

EffectReturnsNoRetryLimit(d) ==
  \/ d.viewMode # "batch"
  \/ d.batchJobs > 0
  \/ d.batchLoading

\* The early return of the auto-load effect
EffectReturns(d) ==
  \/ d.viewMode # "batch"
  \/ d.batchJobs > 0
  \/ d.batchLoading
  \/ d.batchRetryCount >= RetryLimit

\* loadBatchJobs up to its await
LoadBatchJobsStart(d) == [d EXCEPT !.batchLoading = TRUE, !.batchError = FALSE]

\* loadBatchJobs after fetchBatchJobs has returned n jobs
LoadBatchJobsResolved(d, n) ==
  [d EXCEPT !.batchJobs = n, !.batchRetryCount = 0, !.batchLoading = FALSE,
            !.last = "resolved"]

\* loadBatchJobs after fetchBatchJobs has thrown
LoadBatchJobsRejected(d) ==
  [d EXCEPT !.batchRetryCount = @ + 1, !.batchError = TRUE, !.batchLoading = FALSE,
            !.last = "rejected"]

\* The effect with [] as dependencies: fetchDocuments once after mounting
FetchDocumentsEffect ==
  /\ dashboard.mounted
  /\ ~dashboard.documentsRequested
  /\ dashboard' = [dashboard EXCEPT !.documentsRequested = TRUE]
  /\ client' = Send(client, "documents", "mount")
  /\ UNCHANGED backend

\* getAllDocuments is answered; the state it sets is none the auto-load
\* effect depends on
DocumentsRespond ==
  /\ \E i \in InFlight("documents"), status \in {200} \cup FailureStatuses :
       client' = Receive(client, i, status)
  /\ UNCHANGED <<backend, dashboard>>

\* The auto-load effect runs after a render that changed one of its dependencies
AutoLoadEffect ==
  /\ EffectPending
  /\ IF EffectReturns(dashboard)
       THEN /\ dashboard' = [dashboard EXCEPT !.effectDeps = Deps(dashboard)]
            /\ UNCHANGED client
       ELSE /\ dashboard' = [LoadBatchJobsStart(dashboard)
                               EXCEPT !.effectDeps = Deps(dashboard), !.last = "effect"]
            /\ client' = Send(client, "batchJobs", "auto")
  /\ UNCHANGED backend

\* One of the two view buttons is pressed: setViewMode
SetViewMode ==
  /\ dashboard.mounted
  /\ ~EffectPending
  /\ \E m \in {"single", "batch"} \ {dashboard.viewMode} :
       dashboard' = [dashboard EXCEPT !.viewMode = m, !.last = "mode"]
  /\ UNCHANGED <<backend, client>>

\* The Retry button, which the batch view shows with the error while nothing
\* is loading, is pressed: onClick={loadBatchJobs}
Retry ==
  /\ dashboard.mounted
  /\ ~EffectPending
  /\ dashboard.viewMode = "batch"
  /\ ~dashboard.batchLoading
  /\ dashboard.batchError
  /\ dashboard.batchRetryCount < MaxRetryCount
  /\ dashboard' = [LoadBatchJobsStart(dashboard) EXCEPT !.last = "retry"]
  /\ client' = Send(client, "batchJobs", "manual")
  /\ UNCHANGED backend

\* fetchBatchJobs returns a list of n jobs
BatchJobsResolve ==
  /\ dashboard.mounted
  /\ ~EffectPending
  /\ \E i \in InFlight("batchJobs"), n \in 0..MaxJobs :
       /\ client' = Receive(client, i, 200)
       /\ dashboard' = LoadBatchJobsResolved(dashboard, n)
  /\ UNCHANGED backend

\* fetchBatchJobs throws: the request failed
BatchJobsReject ==
  /\ dashboard.mounted
  /\ ~EffectPending
  /\ \E i \in InFlight("batchJobs"), status \in FailureStatuses :
       /\ client' = Receive(client, i, status)
       /\ dashboard' = LoadBatchJobsRejected(dashboard)
  /\ UNCHANGED backend

(***************************************************************************)
(* SpecFrontend: a browser logs in, opens the dashboard and uses it against *)
(* a server that may answer any request with success or failure            *)
(***************************************************************************)
FrontendInit ==
  /\ BackendIdle
  /\ dashboard = DashboardUnmounted
  /\ \E t \in {""} \cup Tokens : client = ClientAtLogin(t)

FrontendNext ==
  \/ SubmitLogin
  \/ LoginResponds
  \/ OpenDashboard
  \/ Navigate
  \/ FetchDocumentsEffect
  \/ DocumentsRespond
  \/ AutoLoadEffect
  \/ SetViewMode
  \/ Retry
  \/ BatchJobsResolve
  \/ BatchJobsReject

SpecFrontend == FrontendInit /\ [][FrontendNext]_vars

(***************************************************************************)
(* The document viewer: isBatchFileId (lib/api.ts) decides which endpoints  *)
(* an identifier is sent to                                                *)
(***************************************************************************)
\* The characters of the viewer's identifiers: a letter, a digit, and the
\* three punctuation marks of a batch file id
ViewerChars == {"a", "1", "-", ".", ":"}

MaxIdLen == 5

ViewerIds == UNION {[1..k -> ViewerChars] : k \in 1..MaxIdLen}

\* [A-Za-z0-9]
IsAlnum(c) == c \in {"a", "1"}

\* [\d.]
IsDigitOrDot(c) == c \in {"1", "."}

\* isBatchFileId: /^[A-Za-z0-9]+-[\d.]+:.+$/.test(documentId)
IsBatchFileId(documentId) ==
  \E i, j \in 1..Len(documentId) :
    /\ 1 < i
    /\ i + 1 < j
    /\ j < Len(documentId)
    /\ \A k \in 1..(i - 1) : IsAlnum(documentId[k])
    /\ documentId[i] = "-"
    /\ \A k \in (i + 1)..(j - 1) : IsDigitOrDot(documentId[k])
    /\ documentId[j] = ":"

\* The viewer asks for the structure of its document: from the batch endpoint
\* if isBatchFileId says so, else from the document endpoint
ViewDocument ==
  /\ client.page = "viewer"
  /\ client.last = "none"
  /\ req.op = "none"
  /\ LET op == IF IsBatchFileId(client.documentId) THEN "batchStructure"
               ELSE "documentGet"
     IN  /\ req' = RouteReq(op, client.sessionToken, client.documentId, <<>>)
         /\ client' = Send(client, op, "user")
  /\ UNCHANGED <<sessions, issued, now, docs, fs, res, trace, prev, dashboard>>

ViewerInit ==
  /\ BackendIdle
  /\ dashboard = DashboardUnmounted
  /\ \E t \in {"", "t1"}, id \in ViewerIds :
       client = [ClientAtLogin(t) EXCEPT !.page = "viewer", !.documentId = id]

ViewerNext ==
  \/ ViewDocument
  \/ Pending /\ RouteBatchStructure(req)
  \/ Pending /\ RouteDocumentGet(req)

SpecViewer == ViewerInit /\ [][ViewerNext]_vars

(***************************************************************************)
(* Properties of an answered request                                       *)
(***************************************************************************)
Done == res.kind # "none"

DotDot == <<".", ".">>

\* The positions of the trace whose step is of one of the kinds
Steps(kinds) == {i \in 1..Len(trace) : trace[i].ev \in kinds}

HandlerRan == \E i \in 1..Len(trace) : trace[i].ev = "handler"

Granted == \E i \in 1..Len(trace) : trace[i] = Ev("authz", "Grant", NoPath)

DenyStep == \E i \in 1..Len(trace) : trace[i] = Ev("authz", "Deny", NoPath)

\* The Deny outcome: the access-denied error, and no path built or touched
Denied ==
  /\ res.threw
  /\ res.message.text = AccessDeniedText
  /\ Steps({"path", "fs"}) = {}

ServiceIdOps == {"getDocumentById", "getDocumentImages", "getBatchDocumentStructure"}

BatchIdRoutes ==
  {"batchStatus", "batchStructure", "batchImages", "batchImage", "batchPdf"}

BatchFileRoutes == {"batchStructure", "batchImages", "batchImage", "batchPdf"}

\* The request reached code that takes the identifier
IdentifierTaken ==
  \/ req.op \in ServiceIdOps
  \/ req.op \in BatchIdRoutes /\ HandlerRan

\* The identifier was turned away before any path was built
IdentifierRejected ==
  /\ Steps({"path", "fs"}) = {}
  /\ IF res.kind = "http" THEN res.status = 400 ELSE res.threw

\* C1: every entry point that takes an identifier (the batch routes and
\* DocumentService.getDocumentById, getDocumentImages, getBatchDocumentStructure)
\* rejects an identifier containing ".." and touches no file for it.
C1_DotDotRejected ==
  (Done /\ IdentifierTaken
     /\ (Includes(req.id, DotDot) \/ Includes(req.imageName, DotDot)))
    => IdentifierRejected

\* getDocumentById("..:a") by a caller outside every group of the catalog: the
\* identifier is taken as a batch file and a file is looked for
C1_Witness ==
  /\ Done
  /\ req.op = "getDocumentById"
  /\ req.id = <<".", ".", ":", "a">>
  /\ ~req.isAdmin
  /\ Steps({"fs"}) # {}

\* The root the paths of the request's operation belong under
ExpectedRoot ==
  IF \/ req.op \in {"getAllDocuments", "documentList"}
     \/ /\ req.op \in {"getDocumentById", "getDocumentImages", "documentGet"}
        /\ ~IsBatchDocument(req.id)
    THEN OUTPUTS_DIR
    ELSE BATCH_OUTPUTS_DIR

\* C2: every path the service builds or touches for a request lies under
\* OUTPUTS_DIR (simple identifiers) or BATCH_OUTPUTS_DIR (batch identifiers).
C2_PathsUnderRoot ==
  Done => \A i \in Steps({"path", "fs"}) : IsUnder(trace[i].path, ExpectedRoot)

\* GET /api/documents/..:a without a token: the path looked up is under
\* neither root
C2_Witness ==
  /\ Done
  /\ req.op = "documentGet"
  /\ req.token = NoToken
  /\ req.id = <<".", ".", ":", "a">>
  /\ \E i \in Steps({"fs"}) :
       /\ ~IsUnder(trace[i].path, BATCH_OUTPUTS_DIR)
       /\ ~IsUnder(trace[i].path, OUTPUTS_DIR)

ResolveOps ==
  {"getDocumentById", "getDocumentImages", "documentGet"} \cup BatchFileRoutes

\* A step that settles the request may proceed: the ACL check granted, the
\* identifier was classified as a batch file (to which no ACL applies), or the
\* authenticate middleware let the request through
Authorizes(e) ==
  \/ e.ev = "authz" /\ e.what = "Grant"
  \/ e.ev = "classify" /\ e.what = "batch"
  \/ e.ev = "authn" /\ e.what = "Grant"

Visible(documentId, userGroupIds) ==
  LET r == FindDocument(documentId)
  IN  r.exists /\ r.isActive /\ r.permissions \cap userGroupIds # {}

\* C4: for a principal that is not an administrator and a simple identifier,
\* the decision is Grant exactly when a record exists, is active and shares a
\* group with the principal; otherwise it is Deny.
C4_SimpleIdGrantIff ==
  (Done /\ req.op \in IdOps /\ ~req.isAdmin /\ ~IsBatchDocument(req.id))
    => /\ Granted <=> Visible(req.id, req.groupIds)
       /\ Denied <=> ~Visible(req.id, req.groupIds)

C4_Witness ==
  /\ Done
  /\ req.op = "getDocumentById"
  /\ ~req.isAdmin
  /\ req.id = DocA
  /\ req.groupIds = Groups
  /\ FindDocument(DocA) = Record({"G2"}, TRUE)
  /\ Granted
  /\ ~res.threw

\* C5: an administrator is granted on every operation whatever the record says,
\* and an administrator's listing holds every active record that has a folder.
C5_AdminAlwaysGranted ==
  /\ (Done /\ req.op \in IdOps /\ req.isAdmin)
       => /\ ~DenyStep
          /\ res.message.text # AccessDeniedText
          /\ Granted \/ IsBatchDocument(req.id)
  /\ (Done /\ req.op = "getAllDocuments" /\ req.isAdmin /\ FsIsDir(OutputsRoot))
       => {it.id : it \in res.data.items}
            = {d \in FindAll : FsIsDir(Append(OutputsRoot, d))}

C5_Witness ==
  /\ Done
  /\ req.op = "getDocumentById"
  /\ req.isAdmin
  /\ req.groupIds = {}
  /\ req.id = DocA
  /\ FindDocument(DocA) = NoRecord
  /\ Granted
  /\ ~res.threw
  /\ res.data.kind = "json"

\* C6: a record whose permissions are empty is denied to every principal that
\* is not an administrator, and is in no such principal's listing.
C6_EmptyPermissionsHidden ==
  /\ (Done /\ req.op \in IdOps /\ ~req.isAdmin
        /\ FindDocument(req.id).exists /\ FindDocument(req.id).permissions = {})
       => Denied
  /\ (Done /\ req.op = "getAllDocuments" /\ ~req.isAdmin)
       => \A it \in res.data.items : FindDocument(it.id).permissions # {}

C6_Witness ==
  /\ Done
  /\ req.op = "getDocumentImages"
  /\ ~req.isAdmin
  /\ req.groupIds = Groups
  /\ FindDocument(req.id) = Record({}, TRUE)
  /\ FsIsDir(Append(OutputsRoot, req.id))
  /\ Denied

\* A syntactically valid batch file identifier
ValidBatchFileId(id) ==
  /\ IsBatchDocument(id)
  /\ ~Includes(id, DotDot)
  /\ ~Includes(id, <<"/">>)
  /\ ~Includes(id, <<"\\">>)

SameCaller ==
  /\ prev.req.op = req.op
  /\ prev.req.token = req.token
  /\ prev.req.groupIds = req.groupIds
  /\ prev.req.isAdmin = req.isAdmin

\* d has a record that the principal may not see
Forbidden(d, userGroupIds) == FindDocument(d).exists /\ ~Visible(d, userGroupIds)

\* one identifier has no record, the other has a record the caller may not see
MissingAndForbidden(d1, d2) ==
  /\ ~IsBatchDocument(d1)
  /\ ~IsBatchDocument(d2)
  /\ ~FindDocument(d1).exists
  /\ Forbidden(d2, req.groupIds)

\* C8: to a principal that is not an administrator, a simple identifier without
\* a record and one with a record it may not see are answered alike: the same
\* response, after the same steps.
C8_MissingLikeForbidden ==
  (Done /\ prev.req.op # "none" /\ SameCaller /\ ~req.isAdmin
     /\ (MissingAndForbidden(prev.req.id, req.id)
           \/ MissingAndForbidden(req.id, prev.req.id)))
    => prev.res = res /\ prev.trace = trace

C8_Witness ==
  /\ Done
  /\ prev.req.op = "getDocumentById"
  /\ SameCaller
  /\ ~req.isAdmin
  /\ req.groupIds = {"G1"}
  /\ prev.req.id = <<"_">>
  /\ req.id = DocA
  /\ FindDocument(DocA) = Record({"G2"}, TRUE)
  /\ FsIsFile(TreeOf(DocA))
  /\ res.threw
  /\ res = prev.res


(***************************************************************************)
(* Properties of sessions                                                  *)
(***************************************************************************)
\* The routes the README documents as requiring authentication
ProtectedOps ==
  BatchIdRoutes \cup {"batchList", "documentList", "documentGet", "logout", "me"}

\* The routes registered behind the authenticate middleware
AuthenticatedOps == BatchIdRoutes \cup {"batchList", "logout", "me"}

\* The token was issued and its session's 24 hours are over
Expired(token) == \E s \in issued : s.token = token /\ now > s.expiresAt

\* The request carries no token, or one that was never issued, has expired or
\* (for a route that does not itself end the session) has been logged out
SessionInvalid ==
  \/ req.token = NoToken
  \/ req.token \notin IssuedTokens
  \/ Expired(req.token)
  \/ req.op # "logout" /\ Authenticate(req.token) = NoUser

\* C9: a request to a protected route without a valid session is answered 401
\* and the route's handler does not run for it.
C9_UnauthenticatedRejected ==
  (Done /\ req.op \in ProtectedOps /\ SessionInvalid)
    => /\ res.status = 401
       /\ ~HandlerRan
       /\ Steps({"path", "fs"}) = {}

\* GET /api/documents/a:a without a token: the handler runs and answers with
\* the document structure
C9_Witness ==
  /\ Done
  /\ req.op = "documentGet"
  /\ req.token = NoToken
  /\ req.id = BatchFileA
  /\ HandlerRan
  /\ res.status = 200
  /\ res.data.kind = "json"

\* C10: once now > expiresAt, validating the session's token fails, whether or
\* not the session's row is still in the table, and no route behind the
\* authenticate middleware accepts the token.
C10_ExpiredNeverValid ==
  /\ \A t \in Tokens : Expired(t) => ValidateSession(t) = NoUser
  /\ (Done /\ req.op = "validate" /\ Expired(req.token))
       => res.status = 401 /\ res.data = NoData
  /\ (Done /\ req.op \in AuthenticatedOps /\ Expired(req.token))
       => res.status = 401 /\ ~HandlerRan

C10_Witness ==
  /\ Done
  /\ req.op = "validate"
  /\ Expired(req.token)
  /\ sessions[req.token].exists
  /\ res.status = 401


\* The issued tokens that no longer validate
DeadTokens == {t \in IssuedTokens : ValidateSession(t) = NoUser}

\* A step that answers a request of the operation
Answers(op) == req.op = "none" /\ req'.op = op

\* C11: once logout has completed for a token it never validates again, and a
\* token that has stopped validating (logged out, expired or deleted) is not
\* made valid again by any login, validate or logout.
C11_LogoutIsFinal ==
  /\ [](Done /\ req.op = "validate" /\ req.token \in DeadTokens => res.status = 401)
  /\ [][/\ Answers("logout") /\ res'.status = 200 => req'.token \in DeadTokens'
        /\ DeadTokens \subseteq DeadTokens']_vars

C11_Witness ==
  /\ Done
  /\ req.op = "validate"
  /\ req.token \in IssuedTokens
  /\ ~Expired(req.token)
  /\ ~sessions[req.token].exists
  /\ res.status = 401


InvalidCredentials ==
  HttpResult(Http(401, "", AuthMsg("Invalid username or password"), NoData))

\* C15: a login with a username and a password that fails is answered with one
\* and the same response, whether the username is unknown or the password is
\* wrong, and creates no session.
C15_LoginFailuresAlike ==
  /\ []((Done /\ req.op = "login" /\ req.username # "" /\ req.password # ""
           /\ (req.username \notin Users \/ req.password # UserPassword(req.username)))
          => res = InvalidCredentials)
  /\ [][Answers("login") /\ res'.status # 200
          => sessions' = sessions /\ issued' = issued]_vars

C15_Witness ==
  /\ Done
  /\ req.op = "login"
  /\ req.username = "mallory"
  /\ req.password = "pw-alice"
  /\ res = InvalidCredentials
  /\ IssuedTokens = {}


\* The documents of the store the principal is authorized for
Authorized(userGroupIds, isAdmin) ==
  {d \in DOMAIN docs :
     /\ docs[d].exists
     /\ docs[d].isActive
     /\ isAdmin \/ docs[d].permissions \cap userGroupIds # {}}

\* C16: the listing of a principal is exactly the documents it is authorized
\* for that have a folder under the documents root; a record without a folder
\* and a folder without an accessible record are left out without an error.
C16_ListingExact ==
  (Done /\ req.op = "getAllDocuments")
    => /\ ~res.threw
       /\ {it.id : it \in res.data.items}
            = {d \in Authorized(req.groupIds, req.isAdmin) :
                 FsIsDir(Append(OutputsRoot, d))}

\* both documents have a folder and an active record; the caller's group is in
\* the permissions of one of them only
C16_Witness ==
  /\ Done
  /\ req.op = "getAllDocuments"
  /\ ~req.isAdmin
  /\ req.groupIds = {"G2"}
  /\ fs = FsFull
  /\ FindDocument(DocA) = Record({"G1"}, TRUE)
  /\ FindDocument(DocAA) = Record({"G2"}, TRUE)
  /\ {it.id : it \in res.data.items} = {DocAA}


\* The position of the first colon of an identifier that has one
FirstColon(id) ==
  CHOOSE i \in 1..Len(id) : id[i] = ":" /\ \A j \in 1..(i - 1) : id[j] # ":"

BeforeColon(id) == SubSeq(id, 1, FirstColon(id) - 1)

AfterColon(id) == SubSeq(id, FirstColon(id) + 1, Len(id))

\* The identifier with its separating colon replaced by an underscore
FolderSegment(id) == BeforeColon(id) \o <<"_">> \o AfterColon(id)

\* C17: for an identifier with a colon the batch job id is the part before the
\* first colon and the folder segment is the identifier with that colon
\* replaced by "_"; the routes' helpers and the service's compute the same, and
\* the paths they build are made of these two.
C17_SplitAtFirstColon ==
  (Done /\ IsBatchDocument(req.id))
    => /\ ExtractBatchJobIdFromFileId(req.id) = BeforeColon(req.id)
       /\ FileIdToFolderName(req.id) = FolderSegment(req.id)
       /\ SplitFirst(req.id, ":") = BeforeColon(req.id)
       /\ GetBatchDocumentFolder(req.id) = FolderSegment(req.id)
       /\ req.op \in {"batchStructure", "getBatchDocumentStructure", "getDocumentById",
                      "documentGet"}
            => \A i \in Steps({"path"}) :
                 trace[i].path
                   = PathJoin(<<BATCH_OUTPUTS_DIR, BeforeColon(req.id),
                                FolderSegment(req.id), <<"output">>, <<"processing">>,
                                <<"output_tree.json">> >>)

C17_Witness ==
  /\ Done
  /\ req.op = "batchStructure"
  /\ req.id = <<"_", ":", "a", ":">>
  /\ \E i \in Steps({"path"}) :
       trace[i].path
         = BatchRoot \o << <<"_">>, <<"_", "_", "a", ":">>, <<"output">>,
                           <<"processing">>, <<"output_tree.json">> >>


\* token1:token2 with both tokens non-empty and free of ":", "/", "\" and ".."
WellFormedBatchFileId(id) ==
  IF ~IsBatchDocument(id) THEN FALSE
  ELSE /\ BeforeColon(id) # <<>>
       /\ AfterColon(id) # <<>>
       /\ ~Includes(AfterColon(id), <<":">>)
       /\ ~Includes(id, DotDot)
       /\ ~Includes(id, <<"/">>)
       /\ ~Includes(id, <<"\\">>)

\* C18: a file route rejects every identifier that is not token1:token2 with
\* well-formed tokens, and the status route rejects a job id with "/" or "\".
C18_MalformedRejected ==
  /\ (Done /\ req.op \in BatchFileRoutes /\ HandlerRan /\ ~WellFormedBatchFileId(req.id))
       => IdentifierRejected
  /\ (Done /\ req.op = "batchStatus" /\ HandlerRan
        /\ (Includes(req.id, <<"/">>) \/ Includes(req.id, <<"\\">>)))
       => IdentifierRejected

\* GET /api/batch_jobs/files/a::a/structure: the second colon goes into the
\* folder name that is looked up
C18_Witness ==
  /\ Done
  /\ req.op = "batchStructure"
  /\ req.id = <<"a", ":", ":", "a">>
  /\ res.status # 400
  /\ \E i \in Steps({"fs"}) :
       trace[i].path
         = BatchRoot \o << <<"a">>, <<"a", "_", ":", "a">>, <<"output">>,
                           <<"processing">>, <<"output_tree.json">> >>


\* The identifiers the file routes let through their checks
AcceptedFileId(id) ==
  /\ id # <<>>
  /\ ~FileIdIsTraversal(id)
  /\ ~Falsy(ExtractBatchJobIdFromFileId(id))

\* C19: the folder segment of an accepted batch file identifier is the folder
\* segment of no other accepted identifier.
C19_FolderNameInjective ==
  (Done /\ req.op = "batchStructure" /\ HandlerRan /\ AcceptedFileId(req.id))
    => \A id2 \in Strings :
          (AcceptedFileId(id2) /\ id2 # req.id)
            => FileIdToFolderName(id2) # FileIdToFolderName(req.id)

\* a:_a is looked up in the folder a__a, which is also the folder of a_:a
C19_Witness ==
  /\ Done
  /\ req.op = "batchStructure"
  /\ req.id = <<"a", ":", "_", "a">>
  /\ AcceptedFileId(<<"a", "_", ":", "a">>)
  /\ FileIdToFolderName(<<"a", "_", ":", "a">>) = <<"a", "_", "_", "a">>
  /\ \E i \in Steps({"fs"}) :
       trace[i].path
         = BatchRoot \o << <<"a">>, <<"a", "_", "_", "a">>, <<"output">>,
                           <<"processing">>, <<"output_tree.json">> >>


\* C20: the batch image route rejects, before touching any file, an image
\* name that contains "..", "/" or "\" or whose extension is not one of jpeg,
\* jpg, png, gif, webp.
C20_ImageNameChecked ==
  (Done /\ req.op = "batchImage" /\ HandlerRan
     /\ (\/ FileIdIsTraversal(req.imageName)
         \/ ToLowerCase(ExtName(req.imageName)) \notin BatchImageExts))
    => /\ res.status = 400
       /\ Steps({"fs"}) = {}

\* GET /api/batch_jobs/files/a:a/images/a.txt streams the text file
C20_Witness ==
  /\ Done
  /\ req.op = "batchImage"
  /\ req.id = BatchFileA
  /\ req.imageName = <<"a", ".", "txt">>
  /\ res.status = 200
  /\ \E i \in Steps({"fs"}) :
       /\ trace[i].what = "createReadStream"
       /\ trace[i].path = BatchProcessingA \o << <<"a", ".", "txt">> >>


\* The image listing operations
ListingOps == {"getDocumentImages", "batchImages"}

\* The operation answered with a list of the images of a folder it has read
Listed ==
  /\ Done
  /\ req.op \in ListingOps
  /\ IF res.kind = "http" THEN res.status = 200 ELSE ~res.threw
  /\ res.data.kind = "images"
  /\ res.data.path # NoPath

\* The extensions the operation's listing admits
AllowedExts(op) == IF op = "batchImages" THEN BatchImageExts ELSE ServiceImageExts

\* C21: a listing is the sorted sequence of the files of the folder whose
\* extension is in the allow-list of the operation.
C21_ListingSortedExact ==
  Listed
    => res.data.names
         = SortNames({n \in FsReaddir(res.data.path) :
                        /\ FsIsFile(Append(res.data.path, n))
                        /\ ToLowerCase(ExtName(n)) \in AllowedExts(req.op)})

\* GET /api/batch_jobs/files/a:a/images answers a.png before a.gif when the
\* directory holds them in that order
C21_Witness ==
  /\ Listed
  /\ req.op = "batchImages"
  /\ req.id = BatchFileA
  /\ res.data.names = << <<"a", ".", "png">>, <<"a", ".", "gif">> >>


\* The operation succeeded with the empty list
EmptyListing ==
  /\ IF res.kind = "http" THEN res.status = 200 ELSE ~res.threw
  /\ res.data.kind = "images"
  /\ res.data.names = <<>>

\* C22: a listing operation that has resolved the folder of an authorized
\* identifier and finds no such folder on disk answers the empty list.
C22_MissingFolderEmptyList ==
  (Done /\ req.op \in ListingOps
     /\ \E i \in Steps({"path"}) : FsErrno(trace[i].path) = "ENOENT")
    => EmptyListing

\* getDocumentImages('a', [], true) by an admin when nothing is on disk throws
\* 'Document with id "a" not found'
C22_Witness ==
  /\ Done
  /\ req.op = "getDocumentImages"
  /\ req.id = DocA
  /\ req.isAdmin
  /\ fs = FsEmpty
  /\ Granted
  /\ res.threw
  /\ res.message.text = ImagesDocNotFoundText


\* The not-found kind: HTTP 404, or a thrown error whose message says not found
NotFoundKind ==
  IF res.kind = "http" THEN res.status = 404
  ELSE res.threw /\ MessageIncludesNotFound(res.message)

C24_DeniedIs403 ==
  (Done /\ req.op = "documentGet"
     /\ Authenticate(req.token) # NoUser
     /\ ~Authenticate(req.token).isAdmin
     /\ ~IsBatchDocument(req.id)
     /\ ~HasAccess(req.id, Authenticate(req.token).groupIds))
    => res.status = 403

\* alice (group G1) asks for document a, which only G2 may read: the answer is
\* 500 'Failed to fetch document' with the access-denied message
C24_Witness ==
  /\ Done
  /\ req.op = "documentGet"
  /\ req.id = DocA
  /\ Authenticate(req.token) = Principal("alice")
  /\ docs[DocA] = Record({"G2"}, TRUE)
  /\ DenyStep
  /\ res.status = 500
  /\ res.message.text = AccessDeniedText


\* A step in which a request is answered
AnswerStep == res'.kind # "none" /\ (res.kind = "none" \/ req' # req)

\* C25: no operation of the document service and no batch or document route
\* changes the session table, the document records or the files on disk,
\* whoever asks, whatever the input, and whether it succeeds or fails.
C25_OperationsOnlyRead ==
  [][AnswerStep => UNCHANGED <<sessions, issued, docs, fs>>]_vars

\* The structure of a:a was asked for on an empty disk and answered 404: the
\* disk is still empty and alice's session is still there
C25_Witness ==
  /\ Done
  /\ req.op = "batchStructure"
  /\ req.id = BatchFileA
  /\ prev = NoPrev
  /\ res.status = 404
  /\ fs = FsEmpty
  /\ sessions = SessionsFixed


\* The route GET /files/:fileId/structure rejects the identifier
RouteRejects(id) == BatchStructureHandler(id).response.status = 400

\* The output_tree.json path the route builds for the identifier
RouteStructurePath(id) ==
  BatchFilePath(id, << <<"output">>, <<"processing">>, <<"output_tree.json">> >>)

\* C29: for an identifier with a colon, getBatchDocumentStructure rejects it
\* exactly when the structure route rejects it, and when the route accepts it
\* both compute the same job id, folder name and output_tree.json path.
C29_BatchResolversAgree ==
  (Done /\ req.op = "getBatchDocumentStructure" /\ IsBatchDocument(req.id))
    => /\ IdentifierRejected <=> RouteRejects(req.id)
       /\ ~RouteRejects(req.id)
            => /\ SplitFirst(req.id, ":") = ExtractBatchJobIdFromFileId(req.id)
               /\ GetBatchDocumentFolder(req.id) = FileIdToFolderName(req.id)
               /\ \A i \in Steps({"path"}) : trace[i].path = RouteStructurePath(req.id)

\* getBatchDocumentStructure('..:a') looks for a file, the route answers 400
C29_Witness ==
  /\ Done
  /\ req.op = "getBatchDocumentStructure"
  /\ req.id = <<".", ".", ":", "a">>
  /\ RouteRejects(req.id)
  /\ Steps({"fs"}) # {}


(***************************************************************************)
(* Properties of the frontend                                              *)
(***************************************************************************)
\* In this step the client sends a request asked for by by
Sent(by) ==
  /\ Len(client'.inflight) = Len(client.inflight) + 1
  /\ client'.inflight[Len(client'.inflight)].by = by

\* In this step the answer to a request for op asked for by one of bys arrives
\* with one of the statuses
Answer(op, bys, statuses) ==
  \E i \in InFlight(op) :
    /\ client.inflight[i].by \in bys
    /\ client'.inflight = RemoveAt(client.inflight, i)
    /\ client'.last \in statuses

Failure == {"401", "500"}

Anyone == {"auto", "manual", "mount", "user"}

\* C26: while the view mode stays 'batch', the auto-load effect starts no fetch
\* after a fetch that succeeded, until the view mode changes or Retry is pressed.
C26_NoFetchAfterSuccess ==
  [][Sent("auto") => dashboard.last # "resolved"]_vars

\* The fetch returned an empty list in batch view: batchLoading is false again,
\* batchJobs.length is still 0, and the effect is about to fetch once more
C26_Witness ==
  /\ dashboard.mounted
  /\ dashboard.last = "resolved"
  /\ dashboard.viewMode = "batch"
  /\ dashboard.batchJobs = 0
  /\ EffectPending
  /\ ~EffectReturns(dashboard)

\* C27: batchRetryCount goes up by one with every failed fetch and back to 0
\* only with a successful one, and changes in no other way; an automatic fetch
\* never takes it above 5; the effect starts a fetch only while it is below 5
\* and batchLoading is false; at most one automatic fetch is in flight.
C27_RetriesBounded ==
  /\ [][Answer("batchJobs", Anyone, Failure)
          => dashboard'.batchRetryCount = dashboard.batchRetryCount + 1]_vars
  /\ [][(dashboard.mounted /\ dashboard'.mounted
           /\ dashboard'.batchRetryCount # dashboard.batchRetryCount)
          => \/ Answer("batchJobs", Anyone, Failure)
             \/ /\ Answer("batchJobs", Anyone, {"200"})
                /\ dashboard'.batchRetryCount = 0]_vars
  /\ [][Answer("batchJobs", {"auto"}, Failure)
          => dashboard'.batchRetryCount <= RetryLimit]_vars
  /\ [][Sent("auto")
          => /\ dashboard.batchRetryCount < RetryLimit
             /\ ~dashboard.batchLoading]_vars
  /\ [](Cardinality({i \in InFlight("batchJobs") : client.inflight[i].by = "auto"}) <= 1)

\* Five fetches in a row have failed: the batch view shows the error and the
\* effect has run and started nothing
C27_Witness ==
  /\ dashboard.mounted
  /\ dashboard.viewMode = "batch"
  /\ dashboard.last = "rejected"
  /\ dashboard.batchRetryCount = RetryLimit
  /\ ~dashboard.batchLoading
  /\ ~EffectPending
  /\ InFlight("batchJobs") = {}

\* C30: a response with status 401 removes sessionToken and user from
\* localStorage; only a successful login stores a token; and a request carries
\* Authorization: Bearer <token> exactly when a token is stored as it is sent.
C30_HeaderFollowsStorage ==
  /\ [][Answer("login", Anyone, {"401"}) \/ Answer("documents", Anyone, {"401"})
          \/ Answer("batchJobs", Anyone, {"401"})
          => client'.sessionToken = "" /\ client'.user = ""]_vars
  /\ [][(client'.sessionToken # client.sessionToken /\ client'.sessionToken # "")
          => Answer("login", Anyone, {"200"})]_vars
  /\ [][(\E by \in Anyone : Sent(by))
          => client'.inflight[Len(client'.inflight)].authorization
               = IF client.sessionToken # "" THEN Bearer(client.sessionToken)
                 ELSE NoHeader]_vars

\* A 401 has cleared the storage and the dashboard, not yet unloaded, has sent
\* its next request for the batch jobs without an Authorization header
C30_Witness ==
  /\ client.sessionToken = ""
  /\ client.user = ""
  /\ client.redirect
  /\ client.last = "request"
  /\ \E i \in InFlight("batchJobs") : client.inflight[i].authorization = NoHeader


\* The backend takes the identifier for a batch file
BackendBatch(id) == IsBatchDocument(id) /\ ExtractBatchJobIdFromFileId(id) # Null

\* C28: the frontend's isBatchFileId and the backend's isBatchDocument with
\* extractBatchJobIdFromFileId classify the viewer's identifier alike, so the
\* backend never treats as a batch file what the frontend sent to the
\* document endpoint.
C28_SameClassification ==
  (Done /\ client.documentId # <<>>)
    => /\ IsBatchFileId(client.documentId) <=> BackendBatch(client.documentId)
       /\ req.op = "documentGet"
            => \A i \in 1..Len(trace) : trace[i] # Ev("classify", "batch", NoPath)

\* The viewer sends a:a to GET /api/documents/:id, where getDocumentById takes
\* it for a batch file
C28_Witness ==
  /\ Done
  /\ client.documentId = <<"a", ":", "a">>
  /\ ~IsBatchFileId(client.documentId)
  /\ req.op = "documentGet"
  /\ trace[2] = Ev("classify", "batch", NoPath)

====
